---------------------------- MODULE Spec2Model ----------------------------
(***************************************************************************)
(* Model of src/app.py: the detailing-shop agenda.  The relational store   *)
(* (services, vehicle types, service prices, appointments, service sales,  *)
(* clients) is the state; every POST handler is one action, run to         *)
(* completion.  Text columns are sequences of one-character strings so     *)
(* that strip/split/join/upper are computed, not assumed.                  *)
(***************************************************************************)
EXTENDS Integers, Sequences, FiniteSets, TLC

VARIABLES
    services,       \* table services: id (index) -> Service row
    vehicle_types,  \* table vehicle_types: id (index) -> VehicleType row
    service_prices, \* table service_prices: id (index) -> ServicePrice row
    appointments,   \* table appointments: id -> Appointment row
    service_sales,  \* table service_sales: id (index) -> ServiceSale row
    clients,        \* table clients: plate -> Client row
    resp            \* the request being answered and its response, or Idle

vars == <<services, vehicle_types, service_prices, appointments,
          service_sales, clients, resp>>

store == <<services, vehicle_types, service_prices, appointments,
           service_sales, clients>>

catalog == <<services, vehicle_types, service_prices>>

----------------------------------------------------------------------------
(* Text values *)

\* Python's None in a nullable text column (no text is a one-element
\* sequence holding a longer string, so it differs from every text).
None == <<"None">>

\* SQL NULL in a nullable integer column; row ids start at 1.
NoId == 0

Whitespace == {" "}

EmptyText == <<>>

Motor == <<"M", "o", "t", "o", "r">>
Chasis == <<"C", "h", "a", "s", "i", "s">>
WashMorado == <<"W", "a", "s", "h", " ", "M", "o", "r", "a", "d", "o">>
Enjuague == <<"E", "n", "j", "u", "a", "g", "u", "e">>
Moto == <<"M", "o", "t", "o">>
SUV == <<"S", "U", "V">>
Cera == <<"C", "e", "r", "a">>
SinNombre == <<"S", "i", "n", " ", "n", "o", "m", "b", "r", "e">>
NA == <<"N", "/", "A">>
Completed == <<"c", "o", "m", "p", "l", "e", "t", "e", "d">>
Cancelled == <<"c", "a", "n", "c", "e", "l", "l", "e", "d">>
Efectivo == <<"E", "f", "e", "c", "t", "i", "v", "o">>
CommaSpace == <<",", " ">>

\* str.strip(): drop leading and trailing whitespace.
RECURSIVE LStrip(_)
LStrip(s) ==
    IF s = <<>> THEN <<>>
    ELSE IF Head(s) \in Whitespace THEN LStrip(Tail(s)) ELSE s

RECURSIVE RStrip(_)
RStrip(s) ==
    IF s = <<>> THEN <<>>
    ELSE IF s[Len(s)] \in Whitespace THEN RStrip(SubSeq(s, 1, Len(s) - 1))
    ELSE s

Strip(s) == RStrip(LStrip(s))

\* str.upper() on the letters the model's plates use.
UpperChar(c) ==
    CASE c = "a" -> "A"
      [] c = "b" -> "B"
      [] c = "c" -> "C"
      [] OTHER -> c

\* sep.join(parts)
RECURSIVE Join(_, _)
Join(parts, sep) ==
    IF parts = <<>> THEN <<>>
    ELSE IF Len(parts) = 1 THEN parts[1]
    ELSE parts[1] \o sep \o Join(Tail(parts), sep)

\* s.split(","): the pieces between commas, empty pieces kept.
RECURSIVE SplitFrom(_, _, _)
SplitFrom(s, i, cur) ==
    IF i > Len(s) THEN <<cur>>
    ELSE IF s[i] = "," THEN <<cur>> \o SplitFrom(s, i + 1, <<>>)
    ELSE SplitFrom(s, i + 1, Append(cur, s[i]))

SplitComma(s) == SplitFrom(s, 1, <<>>)

\* [s.strip() for s in text.split(",") if s.strip()]
service_names_of(text) ==
    LET pieces == SplitComma(text)
        stripped == [i \in 1..Len(pieces) |-> Strip(pieces[i])]
    IN SelectSeq(stripped, LAMBDA p : p # <<>>)

\* normalize_plate: "".join(value.split()).upper()
normalize_plate(value) ==
    LET kept == SelectSeq(value, LAMBDA c : c \notin Whitespace)
    IN [i \in 1..Len(kept) |-> UpperChar(kept[i])]

----------------------------------------------------------------------------
(* Integer helpers *)

SetMax(S) == CHOOSE x \in S : \A y \in S : y <= x
SetMin(S) == CHOOSE x \in S : \A y \in S : x <= y
IntMax(a, b) == IF a >= b THEN a ELSE b

RECURSIVE SeqSum(_)
SeqSum(s) == IF s = <<>> THEN 0 ELSE Head(s) + SeqSum(Tail(s))

\* The ids of a set, ascending (the order in which a primary-key IN (...)
\* query returns its rows).
RECURSIVE Ascending(_)
Ascending(S) ==
    IF S = {} THEN <<>>
    ELSE LET m == SetMin(S) IN <<m>> \o Ascending(S \ {m})

SeqToSet(s) == {s[i] : i \in DOMAIN s}

----------------------------------------------------------------------------
(* Queries *)

\* A variant of ActivePriceIds without the is_active filter.
ActivePriceIds_any(sid, vt) ==
    {i \in DOMAIN service_prices :
        /\ service_prices[i].service_id = sid
        /\ service_prices[i].vehicle_type_id = vt}

\* ServicePrice.query.filter_by(service_id, vehicle_type_id, is_active=True)
ActivePriceIds(sid, vt) ==
    {i \in DOMAIN service_prices :
        /\ service_prices[i].service_id = sid
        /\ service_prices[i].vehicle_type_id = vt
        /\ service_prices[i].is_active}

\* ServicePrice.query.filter_by(service_id, vehicle_type_id)
PriceIds(sid, vt) ==
    {i \in DOMAIN service_prices :
        /\ service_prices[i].service_id = sid
        /\ service_prices[i].vehicle_type_id = vt}

\* Service.query.filter(Service.id.in_(ids)).all(), as a list of ids
ServicesIn(ids) == Ascending(ids \cap DOMAIN services)

\* Service.query.filter(Service.name.in_(names)).all(), as a list of ids
ServicesNamed(names) ==
    Ascending({i \in DOMAIN services : services[i].name \in SeqToSet(names)})

\* A variant of appointment_already_closed that filters on the sale's own id.
appointment_already_closed_by_sale_id(appointment_id) ==
    appointment_id \in DOMAIN service_sales

\* appointment_already_closed
appointment_already_closed(appointment_id) ==
    \E i \in DOMAIN service_sales :
        service_sales[i].appointment_id = appointment_id

----------------------------------------------------------------------------
(* Estimators *)

\* The fixed duration returned when no duration can be resolved.
FallbackMinutes == 60

\* A variant of ResolvedDuration that reads only the Service row.
ResolvedDuration_base_only(sid, vehicle_type_id) ==
    IF sid \in DOMAIN services
    THEN <<services[sid].duration_minutes>>
    ELSE <<>>

\* The duration of one requested service as a list of zero or one
\* element: the active price row's duration, else the Service row's base
\* duration, else nothing.
ResolvedDuration(sid, vehicle_type_id) ==
    LET sp == ActivePriceIds(sid, vehicle_type_id)
    IN IF sp # {} THEN <<service_prices[SetMin(sp)].duration_minutes>>
       ELSE IF sid \in DOMAIN services
            THEN <<services[sid].duration_minutes>>
            ELSE <<>>

\* The list `durations` after the loop over service_ids.
RECURSIVE ResolvedDurations(_, _)
ResolvedDurations(service_ids, vehicle_type_id) ==
    IF service_ids = <<>> THEN <<>>
    ELSE ResolvedDuration(Head(service_ids), vehicle_type_id)
         \o ResolvedDurations(Tail(service_ids), vehicle_type_id)

\* list.sort(reverse=True)
RECURSIVE InsertDesc(_, _)
InsertDesc(x, s) ==
    IF s = <<>> THEN <<x>>
    ELSE IF x >= Head(s) THEN <<x>> \o s
    ELSE <<Head(s)>> \o InsertDesc(x, Tail(s))

RECURSIVE SortDesc(_)
SortDesc(s) == IF s = <<>> THEN <<>> ELSE InsertDesc(Head(s), SortDesc(Tail(s)))

\* int(round(x)) for x = halves / 2: Python rounds a tie to the even integer.
PyRoundHalfUp(halves) == (halves + 1) \div 2

PyRound(halves) ==
    LET q == halves \div 2
    IN IF halves % 2 = 0 THEN q
       ELSE IF q % 2 = 0 THEN q ELSE q + 1

\* A variant of OverlapHalves that halves every duration, the longest too.
OverlapHalves_all_half(durations) == SeqSum(durations)

\* longest + sum(d * 0.5 for d in others), counted in half minutes.
OverlapHalves(durations) ==
    LET sorted == SortDesc(durations)
    IN 2 * Head(sorted) + SeqSum(Tail(sorted))

\* A variant of calculate_real_duration_minutes without the fallback value.
calculate_real_duration_minutes_no_fallback(service_ids, vehicle_type_id) ==
    LET durations == ResolvedDurations(service_ids, vehicle_type_id)
    IN IF durations = <<>> THEN 0
       ELSE PyRound(OverlapHalves(durations))

calculate_real_duration_minutes(service_ids, vehicle_type_id) ==
    LET durations == ResolvedDurations(service_ids, vehicle_type_id)
    IN IF durations = <<>> THEN FallbackMinutes
       ELSE PyRound(OverlapHalves(durations))

\* int(x) for x = n / 2: truncation toward zero.
IntOfHalf(n) == IF n >= 0 THEN n \div 2 ELSE -((-n) \div 2)

\* The branch of edit_appointment for an appointment without vehicle type.
legacy_duration_minutes(service_ids) ==
    LET durations == [i \in 1..Len(service_ids) |->
                          services[service_ids[i]].duration_minutes]
    IN IF durations = <<>> THEN FallbackMinutes
       ELSE LET longest == SetMax(SeqToSet(durations))
                extras == SeqSum(durations) - longest
            IN longest + IntOfHalf(extras)

\* A variant of PriceOf that also counts the price of an inactive row.
PriceOf_inactive_too(sid, vehicle_type_id) ==
    LET sp == PriceIds(sid, vehicle_type_id)
    IN IF sp # {} THEN service_prices[SetMin(sp)].price ELSE 0

\* The price one requested service adds: the active price row's, else 0.
PriceOf(sid, vehicle_type_id) ==
    LET sp == ActivePriceIds(sid, vehicle_type_id)
    IN IF sp # {} THEN service_prices[SetMin(sp)].price ELSE 0

\* A variant of calculate_real_price that charges the first service in full
\* and every later one at half price, the way the durations overlap.
calculate_real_price_overlap(service_ids, vehicle_type_id) ==
    LET rest[i \in 1..Len(service_ids)] ==
            IF i = 1 THEN 0
            ELSE rest[i - 1] + PriceOf(service_ids[i], vehicle_type_id)
    IN IF service_ids = <<>> THEN 0
       ELSE PriceOf(Head(service_ids), vehicle_type_id)
            + rest[Len(service_ids)] \div 2

RECURSIVE calculate_real_price(_, _)
calculate_real_price(service_ids, vehicle_type_id) ==
    IF service_ids = <<>> THEN 0
    ELSE PriceOf(Head(service_ids), vehicle_type_id)
         + calculate_real_price(Tail(service_ids), vehicle_type_id)

----------------------------------------------------------------------------
(* Clients *)

OrNone(text) == IF text = <<>> THEN None ELSE text

\* upsert_client_from_appointment: the clients table afterwards.
upsert_client_from_appointment(plate, full_name, phone) ==
    LET plate_n == normalize_plate(plate)
        name_s == Strip(full_name)
        phone_s == Strip(phone)
    IN IF plate_n = <<>> THEN clients
       ELSE IF plate_n \in DOMAIN clients
       THEN [clients EXCEPT
               ![plate_n] = [full_name |-> IF name_s # <<>> THEN name_s
                                           ELSE clients[plate_n].full_name,
                             phone |-> IF phone_s # <<>> THEN phone_s
                                       ELSE clients[plate_n].phone]]
       ELSE [p \in DOMAIN clients \cup {plate_n} |->
               IF p = plate_n
               THEN [full_name |-> OrNone(name_s), phone |-> OrNone(phone_s)]
               ELSE clients[p]]

----------------------------------------------------------------------------
(* Requests and responses.  A handler runs when no request is being        *)
(* answered and leaves the request with its response in resp; Return       *)
(* delivers the response.                                                   *)

Idle == [op |-> "idle"]

\* The messages of the handlers (accents dropped).
AlreadyClosed == "La cita ya fue cerrada."
InvalidStatus == "Estado invalido"
PaymentRequired == "Medio de pago requerido"
NoDateTime == "Debes seleccionar fecha y hora."
NoServices == "Debes seleccionar al menos un servicio."
NoVehicleType == "Debes seleccionar el tipo de vehiculo."
InvalidServices == "Los servicios seleccionados no son validos."
NotFound == "404"
Ok == "ok"

\* A missing date or time field of the appointment form.
NoStart == -1

Return ==
    /\ resp # Idle
    /\ resp' = Idle
    /\ UNCHANGED store

----------------------------------------------------------------------------
(* Catalog handlers *)

ServiceNames == {services[i].name : i \in DOMAIN services}

\* services_view (POST): a new Service row; a name already taken violates
\* the unique constraint and nothing is written.
services_view(name, duration) ==
    /\ resp = Idle
    /\ IF name = <<>> \/ name \in ServiceNames
       THEN /\ UNCHANGED services
            /\ resp' = [op |-> "services_view", name |-> name, result |-> "rejected"]
       ELSE /\ services' = Append(services,
                [name |-> name, duration_minutes |-> duration, is_active |-> TRUE])
            /\ resp' = [op |-> "services_view", name |-> name, result |-> Ok]
    /\ UNCHANGED <<vehicle_types, service_prices, appointments, service_sales, clients>>

toggle_service(service_id) ==
    /\ resp = Idle
    /\ IF service_id \notin DOMAIN services
       THEN /\ UNCHANGED services
            /\ resp' = [op |-> "toggle_service", id |-> service_id, result |-> NotFound]
       ELSE /\ services' = [services EXCEPT ![service_id].is_active = ~@]
            /\ resp' = [op |-> "toggle_service", id |-> service_id, result |-> Ok]
    /\ UNCHANGED <<vehicle_types, service_prices, appointments, service_sales, clients>>

\* " ".join(name.strip().split()): every run of whitespace becomes one space.
RECURSIVE SqueezeFrom(_, _)
SqueezeFrom(t, i) ==
    IF i > Len(t) THEN <<>>
    ELSE IF t[i] \in Whitespace
         THEN (IF t[i - 1] \in Whitespace THEN <<>> ELSE <<" ">>)
              \o SqueezeFrom(t, i + 1)
         ELSE <<t[i]>> \o SqueezeFrom(t, i + 1)

SqueezeSpaces(text) == SqueezeFrom(Strip(text), 1)

vehicle_types_new(name_in) ==
    LET name == SqueezeSpaces(name_in)
        existing == {i \in DOMAIN vehicle_types : vehicle_types[i].name = name}
    IN /\ resp = Idle
       /\ IF name = <<>>
          THEN /\ UNCHANGED vehicle_types
               /\ resp' = [op |-> "vehicle_types_new", name |-> name_in, result |-> "rejected"]
          ELSE IF existing # {}
          THEN /\ vehicle_types' =
                    [vehicle_types EXCEPT ![SetMin(existing)].is_active = TRUE]
               /\ resp' = [op |-> "vehicle_types_new", name |-> name_in, result |-> "activated"]
          ELSE /\ vehicle_types' = Append(vehicle_types,
                                          [name |-> name, is_active |-> TRUE])
               /\ resp' = [op |-> "vehicle_types_new", name |-> name_in, result |-> Ok]
       /\ UNCHANGED <<services, service_prices, appointments, service_sales, clients>>

vehicle_types_toggle(vehicle_type_id) ==
    /\ resp = Idle
    /\ IF vehicle_type_id \notin DOMAIN vehicle_types
       THEN /\ UNCHANGED vehicle_types
            /\ resp' = [op |-> "vehicle_types_toggle", id |-> vehicle_type_id,
                        result |-> NotFound]
       ELSE /\ vehicle_types' =
                 [vehicle_types EXCEPT ![vehicle_type_id].is_active = ~@]
            /\ resp' = [op |-> "vehicle_types_toggle", id |-> vehicle_type_id,
                        result |-> Ok]
    /\ UNCHANGED <<services, service_prices, appointments, service_sales, clients>>

\* A variant of service_prices_new that adds a row without looking for an
\* existing one of the pair.
service_prices_new_always_insert(service_id, vehicle_type_id, price, duration) ==
    /\ resp = Idle
    /\ service_prices' = Append(service_prices,
            [service_id |-> service_id,
             vehicle_type_id |-> vehicle_type_id,
             price |-> price,
             duration_minutes |-> duration,
             is_active |-> TRUE])
    /\ resp' = [op |-> "service_prices_new", service_id |-> service_id,
                vehicle_type_id |-> vehicle_type_id, price |-> price,
                duration |-> duration,
                result |-> IF PriceIds(service_id, vehicle_type_id) # {}
                           THEN "updated" ELSE Ok]
    /\ UNCHANGED <<services, vehicle_types, appointments, service_sales, clients>>

\* service_prices_new with all four fields filled in with integers.
service_prices_new(service_id, vehicle_type_id, price, duration) ==
    LET existing == PriceIds(service_id, vehicle_type_id)
    IN /\ resp = Idle
       /\ IF existing # {}
          THEN /\ service_prices' =
                    [service_prices EXCEPT
                        ![SetMin(existing)] = [@ EXCEPT !.price = price,
                                                        !.duration_minutes = duration,
                                                        !.is_active = TRUE]]
               /\ resp' = [op |-> "service_prices_new", service_id |-> service_id,
                           vehicle_type_id |-> vehicle_type_id, price |-> price,
                           duration |-> duration, result |-> "updated"]
          ELSE /\ service_prices' = Append(service_prices,
                    [service_id |-> service_id,
                     vehicle_type_id |-> vehicle_type_id,
                     price |-> price,
                     duration_minutes |-> duration,
                     is_active |-> TRUE])
               /\ resp' = [op |-> "service_prices_new", service_id |-> service_id,
                           vehicle_type_id |-> vehicle_type_id, price |-> price,
                           duration |-> duration, result |-> Ok]
       /\ UNCHANGED <<services, vehicle_types, appointments, service_sales, clients>>

service_prices_toggle(price_id) ==
    /\ resp = Idle
    /\ IF price_id \notin DOMAIN service_prices
       THEN /\ UNCHANGED service_prices
            /\ resp' = [op |-> "service_prices_toggle", id |-> price_id,
                        result |-> NotFound]
       ELSE /\ service_prices' =
                 [service_prices EXCEPT ![price_id].is_active = ~@]
            /\ resp' = [op |-> "service_prices_toggle", id |-> price_id, result |-> Ok]
    /\ UNCHANGED <<services, vehicle_types, appointments, service_sales, clients>>

----------------------------------------------------------------------------
(* Appointment handlers *)

\* The id SQLite gives a new row of a table with an INTEGER PRIMARY KEY:
\* one more than the largest id in the table, 1 for an empty table.
NextAppointmentId ==
    IF DOMAIN appointments = {} THEN 1 ELSE SetMax(DOMAIN appointments) + 1

ServiceNameList(ids) == [i \in 1..Len(ids) |-> services[ids[i]].name]

\* A variant of new_appointment_error that accepts a selection of which no
\* id is a Service row.
new_appointment_error_unresolved_ok(start_dt, selected_ids, vehicle_type_id) ==
    IF start_dt = NoStart THEN NoDateTime
    ELSE IF selected_ids = {} THEN NoServices
    ELSE IF vehicle_type_id = NoId THEN NoVehicleType
    ELSE Ok

\* The checks of new_appointment in the order of the code: the message
\* flashed by the first one that fails, Ok when all pass.
new_appointment_error(start_dt, selected_ids, vehicle_type_id) ==
    IF start_dt = NoStart THEN NoDateTime
    ELSE IF selected_ids = {} THEN NoServices
    ELSE IF vehicle_type_id = NoId THEN NoVehicleType
    ELSE IF ServicesIn(selected_ids) = <<>> THEN InvalidServices
    ELSE Ok

\* new_appointment (POST).  selected_ids is the set of submitted service
\* ids, vehicle_type_id the submitted id or NoId for an empty field,
\* start_dt the parsed date and time in minutes or NoStart.
new_appointment(customer_name_in, plate_in, phone, start_dt, notes, selected_ids, vehicle_type_id) ==
    LET customer_name == IF customer_name_in = <<>> THEN SinNombre
                         ELSE customer_name_in
        plate == normalize_plate(plate_in)
        service_ids == ServicesIn(selected_ids)
        total_minutes == calculate_real_duration_minutes(service_ids, vehicle_type_id)
        services_str == Join(ServiceNameList(service_ids), CommaSpace)
        request == [op |-> "new_appointment",
                    customer_name |-> customer_name_in,
                    plate |-> plate_in,
                    phone |-> phone,
                    start_dt |-> start_dt,
                    selected_ids |-> selected_ids,
                    vehicle_type_id |-> vehicle_type_id]
        error == new_appointment_error(start_dt, selected_ids, vehicle_type_id)
    IN /\ resp = Idle
       /\ IF error # Ok
          THEN /\ resp' = request @@ [result |-> error, id |-> NoId]
               /\ UNCHANGED store
          ELSE /\ clients' = upsert_client_from_appointment(plate, customer_name, phone)
               /\ appointments' =
                    [a \in DOMAIN appointments \cup {NextAppointmentId} |->
                        IF a = NextAppointmentId
                        THEN [customer_name |-> customer_name,
                              plate |-> plate,
                              phone |-> phone,
                              services |-> services_str,
                              start_datetime |-> start_dt,
                              end_datetime |-> start_dt + total_minutes,
                              notes |-> notes,
                              vehicle_type_id |-> vehicle_type_id]
                        ELSE appointments[a]]
               /\ resp' = request @@ [result |-> Ok, id |-> NextAppointmentId]
               /\ UNCHANGED <<services, vehicle_types, service_prices, service_sales>>

\* A variant of delete_appointment that also deletes the appointment's sales.
delete_appointment_cascade(appointment_id) ==
    /\ resp = Idle
    /\ IF appointment_id \notin DOMAIN appointments
       THEN /\ UNCHANGED <<appointments, service_sales>>
            /\ resp' = [op |-> "delete_appointment", id |-> appointment_id,
                        result |-> NotFound]
       ELSE /\ appointments' = [a \in DOMAIN appointments \ {appointment_id} |->
                                   appointments[a]]
            /\ service_sales' = SelectSeq(service_sales,
                                   LAMBDA r : r.appointment_id # appointment_id)
            /\ resp' = [op |-> "delete_appointment", id |-> appointment_id,
                        result |-> Ok]
    /\ UNCHANGED <<services, vehicle_types, service_prices, clients>>

delete_appointment(appointment_id) ==
    /\ resp = Idle
    /\ IF appointment_id \notin DOMAIN appointments
       THEN /\ UNCHANGED appointments
            /\ resp' = [op |-> "delete_appointment", id |-> appointment_id,
                        result |-> NotFound]
       ELSE /\ appointments' = [a \in DOMAIN appointments \ {appointment_id} |->
                                   appointments[a]]
            /\ resp' = [op |-> "delete_appointment", id |-> appointment_id,
                        result |-> Ok]
    /\ UNCHANGED <<services, vehicle_types, service_prices, service_sales, clients>>

\* edit_appointment (POST)
edit_appointment(appointment_id, customer_name, plate_in, phone, start_dt, notes, selected_ids) ==
    LET request == [op |-> "edit_appointment",
                    id |-> appointment_id,
                    customer_name |-> customer_name,
                    plate |-> plate_in,
                    phone |-> phone,
                    start_dt |-> start_dt,
                    selected_ids |-> selected_ids]
    IN /\ resp = Idle
       /\ IF appointment_id \notin DOMAIN appointments
          THEN /\ resp' = request @@ [result |-> NotFound]
               /\ UNCHANGED store
          ELSE LET appointment == appointments[appointment_id]
                   plate == normalize_plate(plate_in)
                   service_ids == ServicesIn(selected_ids)
                   total_duration ==
                       IF appointment.vehicle_type_id # NoId
                       THEN calculate_real_duration_minutes(
                                service_ids, appointment.vehicle_type_id)
                       ELSE legacy_duration_minutes(service_ids)
               IN /\ appointments' =
                       [appointments EXCEPT ![appointment_id] =
                           [customer_name |-> customer_name,
                            plate |-> plate,
                            phone |-> phone,
                            services |-> Join(ServiceNameList(service_ids), CommaSpace),
                            start_datetime |-> start_dt,
                            end_datetime |-> start_dt + total_duration,
                            notes |-> notes,
                            vehicle_type_id |-> appointment.vehicle_type_id]]
                  /\ clients' = upsert_client_from_appointment(plate, customer_name, phone)
                  /\ resp' = request @@ [result |-> Ok]
                  /\ UNCHANGED <<services, vehicle_types, service_prices, service_sales>>

----------------------------------------------------------------------------
(* Closing an appointment *)

\* A variant of close_precondition without the already-closed check.
close_precondition_unguarded(appointment_id, status, payment_method) ==
    IF status \notin {Completed, Cancelled} THEN InvalidStatus
    ELSE IF status = Completed /\ payment_method = <<>> THEN PaymentRequired
    ELSE Ok

\* A variant of close_precondition that validates the body first.
close_precondition_body_first(appointment_id, status, payment_method) ==
    IF status \notin {Completed, Cancelled} THEN InvalidStatus
    ELSE IF status = Completed /\ payment_method = <<>> THEN PaymentRequired
    ELSE IF appointment_already_closed(appointment_id) THEN AlreadyClosed
    ELSE Ok

\* The preconditions of close_appointment in the order the handler checks
\* them: the message of the first one violated, or Ok.
close_precondition(appointment_id, status, payment_method) ==
    IF appointment_already_closed(appointment_id) THEN AlreadyClosed
    ELSE IF status \notin {Completed, Cancelled} THEN InvalidStatus
    ELSE IF status = Completed /\ payment_method = <<>> THEN PaymentRequired
    ELSE Ok

discount_amount_of(discount) == IntMax(discount, 0)

\* A variant of final_amount_of without the floor at 0.
final_amount_unfloored(base_amount, discount_amount) ==
    base_amount - discount_amount

final_amount_of(base_amount, discount_amount) ==
    IntMax(base_amount - discount_amount, 0)

\* A variant of stored_payment_method that keeps what was supplied.
stored_payment_method_as_given(status, payment_method) == payment_method

stored_payment_method(status, payment_method) ==
    IF status = Completed THEN payment_method ELSE None

\* appt.vehicle_type.name if appt.vehicle_type else "N/A"
vehicle_type_name(appt) ==
    IF appt.vehicle_type_id \in DOMAIN vehicle_types
    THEN vehicle_types[appt.vehicle_type_id].name
    ELSE NA

\* The date of a timestamp counted in minutes.
DateOf(dt) == dt \div 1440

\* The ServiceSale row close_appointment builds (created_at, the clock's
\* value at the insert, is left out).
new_sale(appointment_id, payment_method, status, discount, notes) ==
    LET appt == appointments[appointment_id]
        service_ids == ServicesNamed(service_names_of(appt.services))
        base_amount == calculate_real_price(service_ids, appt.vehicle_type_id)
        discount_amount == discount_amount_of(discount)
    IN [appointment_id |-> appointment_id,
        service_date |-> DateOf(appt.start_datetime),
        vehicle_type |-> vehicle_type_name(appt),
        plate |-> appt.plate,
        customer_name |-> appt.customer_name,
        services |-> appt.services,
        base_amount |-> base_amount,
        discount_amount |-> discount_amount,
        final_amount |-> final_amount_of(base_amount, discount_amount),
        payment_method |-> stored_payment_method(status, payment_method),
        status |-> status,
        notes |-> OrNone(notes)]

\* A variant of close_appointment that commits the sale before it looks at
\* the payment method.
close_appointment_insert_unpaid(appointment_id, payment_method_in, status_in, discount, notes_in) ==
    LET payment_method == Strip(payment_method_in)
        status == Strip(status_in)
        notes == Strip(notes_in)
        request == [op |-> "close_appointment",
                    id |-> appointment_id,
                    payment_method |-> payment_method_in,
                    status |-> status_in,
                    discount |-> discount]
    IN /\ resp = Idle
       /\ IF appointment_id \notin DOMAIN appointments
          THEN /\ resp' = request @@ [result |-> NotFound]
               /\ UNCHANGED service_sales
          ELSE LET error == close_precondition(appointment_id, status, payment_method)
               IN IF error \notin {Ok, PaymentRequired}
                  THEN /\ resp' = request @@ [result |-> error]
                       /\ UNCHANGED service_sales
                  ELSE /\ service_sales' = Append(service_sales,
                              new_sale(appointment_id, payment_method, status,
                                       discount, notes))
                       /\ resp' = request @@ [result |-> error]
       /\ UNCHANGED <<services, vehicle_types, service_prices, appointments, clients>>

\* A variant of close_appointment that also writes the sale's status into
\* the notes of the appointment it closes.
close_appointment_marking(appointment_id, payment_method_in, status_in, discount, notes_in) ==
    LET payment_method == Strip(payment_method_in)
        status == Strip(status_in)
        notes == Strip(notes_in)
        request == [op |-> "close_appointment",
                    id |-> appointment_id,
                    payment_method |-> payment_method_in,
                    status |-> status_in,
                    discount |-> discount]
    IN /\ resp = Idle
       /\ IF appointment_id \notin DOMAIN appointments
          THEN /\ resp' = request @@ [result |-> NotFound]
               /\ UNCHANGED <<service_sales, appointments>>
          ELSE LET error == close_precondition(appointment_id, status, payment_method)
               IN IF error # Ok
                  THEN /\ resp' = request @@ [result |-> error]
                       /\ UNCHANGED <<service_sales, appointments>>
                  ELSE /\ service_sales' = Append(service_sales,
                              new_sale(appointment_id, payment_method, status,
                                       discount, notes))
                       /\ appointments' =
                              [appointments EXCEPT ![appointment_id].notes = status]
                       /\ resp' = request @@ [result |-> Ok]
       /\ UNCHANGED <<services, vehicle_types, service_prices, clients>>

\* close_appointment (POST, JSON body)
close_appointment(appointment_id, payment_method_in, status_in, discount, notes_in) ==
    LET payment_method == Strip(payment_method_in)
        status == Strip(status_in)
        notes == Strip(notes_in)
        request == [op |-> "close_appointment",
                    id |-> appointment_id,
                    payment_method |-> payment_method_in,
                    status |-> status_in,
                    discount |-> discount]
    IN /\ resp = Idle
       /\ IF appointment_id \notin DOMAIN appointments
          THEN /\ resp' = request @@ [result |-> NotFound]
               /\ UNCHANGED service_sales
          ELSE LET error == close_precondition(appointment_id, status, payment_method)
               IN IF error # Ok
                  THEN /\ resp' = request @@ [result |-> error]
                       /\ UNCHANGED service_sales
                  ELSE /\ service_sales' = Append(service_sales,
                              new_sale(appointment_id, payment_method, status,
                                       discount, notes))
                       /\ resp' = request @@ [result |-> Ok]
       /\ UNCHANGED <<services, vehicle_types, service_prices, appointments, clients>>

----------------------------------------------------------------------------
(* The shop: every handler, on a small catalog *)

\* The largest appointment id the model lets the table reach.
MaxAppt == 2

Ana == <<"A", "n", "a">>
Plate1 == <<"a", "b", " ", "1">>
Phone1 == <<"5">>
Bogus == <<"x">>

\* 09:00 on day 0, in minutes.
Start1 == 9 * 60

EmptyTable == <<>>

\* Rows of seed_services and seed_vehicle_types.
SeedServices ==
    << [name |-> Motor, duration_minutes |-> 60, is_active |-> TRUE],
       [name |-> Enjuague, duration_minutes |-> 40, is_active |-> TRUE] >>

SeedVehicleTypes == << [name |-> Moto, is_active |-> TRUE] >>

Init ==
    /\ services = SeedServices
    /\ vehicle_types = SeedVehicleTypes
    /\ service_prices = EmptyTable
    /\ appointments = EmptyTable
    /\ service_sales = EmptyTable
    /\ clients = EmptyTable
    /\ resp = Idle

\* The requests the model submits.
AppointmentIds == 1..MaxAppt

NewRequests ==
    { [start_dt |-> NoStart, selected_ids |-> {1}, vehicle_type_id |-> 1],
      [start_dt |-> Start1, selected_ids |-> {}, vehicle_type_id |-> 1],
      [start_dt |-> Start1, selected_ids |-> {1}, vehicle_type_id |-> NoId],
      [start_dt |-> Start1, selected_ids |-> {9}, vehicle_type_id |-> 1],
      [start_dt |-> Start1, selected_ids |-> {1}, vehicle_type_id |-> 1] }

EditIdSets == {{}, {1}}

CloseRequests ==
    { [payment_method |-> Efectivo, status |-> Completed, discount |-> 30],
      [payment_method |-> Efectivo, status |-> Bogus, discount |-> 30] }

ServicesView == services_view(Chasis, 60)
ToggleService == toggle_service(3)
VehicleTypesNew == vehicle_types_new(SUV)
VehicleTypesToggle == vehicle_types_toggle(2)
ServicePricesNew == service_prices_new(1, 1, 100, 15)
ServicePricesToggle == service_prices_toggle(1)

NewAppointment ==
    /\ NextAppointmentId <= MaxAppt
    /\ \E r \in NewRequests :
          new_appointment(Ana, Plate1, Phone1, r.start_dt, EmptyText,
                          r.selected_ids, r.vehicle_type_id)

EditAppointment ==
    \E appointment_id \in AppointmentIds, selected_ids \in EditIdSets :
        edit_appointment(appointment_id, Ana, Plate1, Phone1, Start1, EmptyText,
                         selected_ids)

DeleteAppointment ==
    \E appointment_id \in AppointmentIds : delete_appointment(appointment_id)

CloseAppointment ==
    \E appointment_id \in AppointmentIds, r \in CloseRequests :
        close_appointment(appointment_id, r.payment_method, r.status,
                          r.discount, EmptyText)

Next ==
    \/ ServicesView
    \/ ToggleService
    \/ VehicleTypesNew
    \/ VehicleTypesToggle
    \/ ServicePricesNew
    \/ ServicePricesToggle
    \/ NewAppointment
    \/ EditAppointment
    \/ DeleteAppointment
    \/ CloseAppointment
    \/ Return

Spec == Init /\ [][Next]_vars

----------------------------------------------------------------------------
(* Closing in detail: one kind of appointment, every kind of close request *)

PaymentInputs == {EmptyText, <<" ">>, Efectivo}
DiscountInputs == {-5, 30, 200}

\* Completed with every payment input and with every discount, cancelled
\* and an unrecognized status with and without a payment method.
CloseRequestsAny ==
    {[payment_method |-> pm, status |-> Completed, discount |-> 30] :
        pm \in PaymentInputs}
    \cup {[payment_method |-> Efectivo, status |-> Completed, discount |-> d] :
        d \in DiscountInputs}
    \cup {[payment_method |-> pm, status |-> Cancelled, discount |-> 200] :
        pm \in {EmptyText, Efectivo}}
    \cup {[payment_method |-> pm, status |-> Bogus, discount |-> 30] :
        pm \in {EmptyText, Efectivo}}

NewAppointmentMotor ==
    /\ NextAppointmentId <= MaxAppt
    /\ new_appointment(Ana, Plate1, Phone1, Start1, EmptyText, {1}, 1)

ServicePricesNewSameDuration == service_prices_new(1, 1, 100, 60)

CloseAppointmentAny ==
    \E appointment_id \in AppointmentIds, r \in CloseRequestsAny :
        close_appointment(appointment_id, r.payment_method, r.status,
                          r.discount, EmptyText)

NextClose ==
    \/ NewAppointmentMotor
    \/ DeleteAppointment
    \/ ServicePricesNewSameDuration
    \/ ServicePricesToggle
    \/ CloseAppointmentAny
    \/ Return

SpecClose == Init /\ [][NextClose]_vars

----------------------------------------------------------------------------
(* Properties of the ledger *)

SalesOf(appointment_id) ==
    {i \in DOMAIN service_sales : service_sales[i].appointment_id = appointment_id}

IsCloseResponse(r) == r.op = "close_appointment"

\* A step in which close_appointment answers a request for an appointment
\* that exists.
CloseStep ==
    /\ resp = Idle
    /\ IsCloseResponse(resp')
    /\ resp'.id \in DOMAIN appointments

StatusValid(r) == Strip(r.status) \in {Completed, Cancelled}

PaymentValid(r) == Strip(r.status) = Completed => Strip(r.payment_method) # <<>>

\* C1: in every reachable state no two ServiceSale rows have the same
\* appointment id.
C1_OneSalePerAppointment ==
    \A i, j \in DOMAIN service_sales :
        service_sales[i].appointment_id = service_sales[j].appointment_id => i = j

\* A second close of a closed appointment has just been refused, and two
\* appointments have been closed.
C1_Witness ==
    /\ IsCloseResponse(resp)
    /\ resp.result = AlreadyClosed
    /\ Len(service_sales) = 2
    /\ SalesOf(resp.id) # {}

\* C2: a valid close request for an existing appointment that no sale
\* references succeeds and appends exactly one sale for it; a valid close
\* request for an appointment a sale references is refused as already
\* closed, writes nothing, and leaves exactly one sale for the appointment.
C2_SecondCloseRefused ==
    [][ (CloseStep /\ StatusValid(resp') /\ PaymentValid(resp')) =>
          IF SalesOf(resp'.id) = {}
          THEN /\ resp'.result = Ok
               /\ Len(service_sales') = Len(service_sales) + 1
               /\ SubSeq(service_sales', 1, Len(service_sales)) = service_sales
               /\ service_sales'[Len(service_sales')].appointment_id = resp'.id
          ELSE /\ resp'.result = AlreadyClosed
               /\ service_sales' = service_sales
               /\ Cardinality(SalesOf(resp'.id)) = 1 ]_vars

\* A valid second close request has just been refused and the appointment
\* has its one sale.
C2_Witness ==
    /\ IsCloseResponse(resp)
    /\ resp.id \in DOMAIN appointments
    /\ StatusValid(resp)
    /\ PaymentValid(resp)
    /\ resp.result = AlreadyClosed
    /\ Cardinality(SalesOf(resp.id)) = 1

\* C3: no step deletes a ServiceSale row or changes a field of one.
C3_LedgerAppendOnly ==
    [][ \A i \in DOMAIN service_sales :
            /\ i \in DOMAIN service_sales'
            /\ service_sales'[i] = service_sales[i] ]_vars

\* One sale's appointment has been deleted, another's has been edited to
\* other services, and the catalog has a new service and a price row.
C3_Witness ==
    /\ \E i \in DOMAIN service_sales :
          service_sales[i].appointment_id \notin DOMAIN appointments
    /\ \E i \in DOMAIN service_sales :
          /\ service_sales[i].appointment_id \in DOMAIN appointments
          /\ appointments[service_sales[i].appointment_id].services
                # service_sales[i].services
    /\ Len(services) > Len(SeedServices)
    /\ Len(vehicle_types) > Len(SeedVehicleTypes)
    /\ service_prices # <<>>

\* C4: the sale a successful close appends has discount_amount =
\* max(requested discount, 0) and final_amount = max(base_amount -
\* discount_amount, 0), and every sale in the table keeps final_amount =
\* max(base_amount - discount_amount, 0).
C4_Amounts ==
    [][ /\ (CloseStep /\ resp'.result = Ok) =>
              LET sale == service_sales'[Len(service_sales')]
              IN /\ sale.discount_amount =
                        (IF resp'.discount > 0 THEN resp'.discount ELSE 0)
                 /\ (resp'.discount < 0 => sale.discount_amount = 0)
                 /\ (sale.discount_amount > sale.base_amount =>
                        sale.final_amount = 0)
        /\ \A i \in DOMAIN service_sales' :
              LET sale == service_sales'[i]
                  rest == sale.base_amount - sale.discount_amount
              IN sale.final_amount = (IF rest > 0 THEN rest ELSE 0) ]_vars

\* A close with a negative discount has just succeeded, and the table
\* holds a sale whose discount exceeds a positive base amount.
C4_Witness ==
    /\ IsCloseResponse(resp)
    /\ resp.result = Ok
    /\ resp.discount < 0
    /\ service_sales[Len(service_sales)].discount_amount = 0
    /\ \E i \in DOMAIN service_sales :
          /\ service_sales[i].base_amount > 0
          /\ service_sales[i].discount_amount > service_sales[i].base_amount
          /\ service_sales[i].final_amount = 0

\* C5: every sale has status completed or cancelled; a completed sale has
\* a non-empty payment_method and a cancelled sale has none, whatever the
\* request supplied.
C5_StatusAndPayment ==
    /\ \A i \in DOMAIN service_sales :
          LET sale == service_sales[i]
          IN /\ sale.status \in {Completed, Cancelled}
             /\ (sale.status = Completed <=>
                    (sale.payment_method # None /\ sale.payment_method # <<>>))
             /\ (sale.status = Cancelled => sale.payment_method = None)
    /\ (IsCloseResponse(resp) /\ resp.result = Ok /\ Strip(resp.status) = Cancelled)
          => service_sales[Len(service_sales)].payment_method = None

\* A cancelled close that supplied a payment method has just succeeded and
\* stored none, and the table also holds a completed sale.
C5_Witness ==
    /\ IsCloseResponse(resp)
    /\ resp.result = Ok
    /\ resp.status = Cancelled
    /\ resp.payment_method = Efectivo
    /\ service_sales[Len(service_sales)].payment_method = None
    /\ \E i \in DOMAIN service_sales :
          /\ service_sales[i].status = Completed
          /\ service_sales[i].payment_method = Efectivo

\* C6: a close request for an existing appointment is answered with the
\* error of the first violated precondition in the order already closed,
\* status, payment method.
C6_PreconditionOrder ==
    [][ CloseStep =>
          IF SalesOf(resp'.id) # {} THEN resp'.result = AlreadyClosed
          ELSE IF ~StatusValid(resp') THEN resp'.result = InvalidStatus
          ELSE IF ~PaymentValid(resp') THEN resp'.result = PaymentRequired
          ELSE resp'.result = Ok ]_vars

\* A request that violates all three preconditions has just been answered
\* with the already-closed error.
C6_Witness ==
    /\ IsCloseResponse(resp)
    /\ resp.id \in DOMAIN appointments
    /\ SalesOf(resp.id) # {}
    /\ ~StatusValid(resp)
    /\ Strip(resp.payment_method) = <<>>
    /\ resp.result = AlreadyClosed

\* A request with an unrecognized status and no payment method for an open
\* appointment has just been answered with the invalid-status error.
C6_WitnessStatusFirst ==
    /\ IsCloseResponse(resp)
    /\ resp.id \in DOMAIN appointments
    /\ SalesOf(resp.id) = {}
    /\ ~StatusValid(resp)
    /\ Strip(resp.payment_method) = <<>>
    /\ resp.result = InvalidStatus

----------------------------------------------------------------------------
(* The estimators on a catalog of price rows *)

\* The longest list of service ids an estimator is called with.
MaxIds == 3

\* Rows of seed_services.
SeedServicesEst ==
    << [name |-> WashMorado, duration_minutes |-> 160, is_active |-> TRUE],
       [name |-> Chasis, duration_minutes |-> 60, is_active |-> TRUE],
       [name |-> Motor, duration_minutes |-> 60, is_active |-> TRUE] >>

InitEst ==
    /\ services = SeedServicesEst
    /\ vehicle_types = SeedVehicleTypes
    /\ service_prices = EmptyTable
    /\ appointments = EmptyTable
    /\ service_sales = EmptyTable
    /\ clients = EmptyTable
    /\ resp = Idle

\* Service ids 1..3 exist, 9 does not; vehicle type 1 exists, 7 does not.
EstServiceIds == {1, 2, 3, 9}
EstVehicleTypeIds == {1, 7}
EstPricedServiceIds == {2, 3, 9}
EstDurations == {15, 61}
IdLists == UNION {[1..n -> EstServiceIds] : n \in 0..MaxIds}

\* A call of calculate_real_duration_minutes on the current catalog.
duration_call(service_ids, vehicle_type_id) ==
    /\ resp = Idle
    /\ resp' = [op |-> "calculate_real_duration_minutes",
                service_ids |-> service_ids,
                vehicle_type_id |-> vehicle_type_id,
                result |-> calculate_real_duration_minutes(service_ids,
                                                           vehicle_type_id)]
    /\ UNCHANGED store

\* A call of calculate_real_price on the current catalog.
price_call(service_ids, vehicle_type_id) ==
    /\ resp = Idle
    /\ resp' = [op |-> "calculate_real_price",
                service_ids |-> service_ids,
                vehicle_type_id |-> vehicle_type_id,
                result |-> calculate_real_price(service_ids, vehicle_type_id)]
    /\ UNCHANGED store

\* The price submitted with each duration.
EstPrice(duration) == IF duration = 15 THEN 100 ELSE 250

ServicePricesNewEst ==
    \E service_id \in EstPricedServiceIds, duration \in EstDurations :
        service_prices_new(service_id, 1, EstPrice(duration), duration)

ServicePricesToggleEst ==
    \E price_id \in 1..Cardinality(EstPricedServiceIds) :
        service_prices_toggle(price_id)

EstimateDuration ==
    \E service_ids \in IdLists, vehicle_type_id \in EstVehicleTypeIds :
        duration_call(service_ids, vehicle_type_id)

EstimatePrice ==
    \E service_ids \in IdLists, vehicle_type_id \in EstVehicleTypeIds :
        price_call(service_ids, vehicle_type_id)

NextEst ==
    \/ ServicePricesNewEst
    \/ ServicePricesToggleEst
    \/ EstimateDuration
    \/ EstimatePrice
    \/ Return

SpecEst == InitEst /\ [][NextEst]_vars

----------------------------------------------------------------------------
(* Properties of the duration estimator *)

IsDurationCall(r) == r.op = "calculate_real_duration_minutes"

\* r is x rounded to an integer with ties going to the even integer, for
\* x = halves / 2.
RoundsToEven(r, halves) ==
    /\ 2 * r - halves \in {-1, 0, 1}
    /\ (2 * r # halves => r % 2 = 0)

\* Twice (the longest of D plus half of the sum of the others).
HalvesOf(D) == SetMax(SeqToSet(D)) + SeqSum(D)

HasActiveRow(sid, vt) ==
    \E i \in DOMAIN service_prices :
        /\ service_prices[i].service_id = sid
        /\ service_prices[i].vehicle_type_id = vt
        /\ service_prices[i].is_active = TRUE

HasInactiveRow(sid, vt) ==
    \E i \in DOMAIN service_prices :
        /\ service_prices[i].service_id = sid
        /\ service_prices[i].vehicle_type_id = vt
        /\ service_prices[i].is_active = FALSE

\* The duration the claims give a requested service that resolves.
ExpectedDuration(sid, vt) ==
    IF HasActiveRow(sid, vt)
    THEN LET i == CHOOSE i \in DOMAIN service_prices :
                    /\ service_prices[i].service_id = sid
                    /\ service_prices[i].vehicle_type_id = vt
                    /\ service_prices[i].is_active = TRUE
         IN service_prices[i].duration_minutes
    ELSE services[sid].duration_minutes

Resolves(sid, vt) == HasActiveRow(sid, vt) \/ sid \in DOMAIN services

ExpectedDurations(ids, vt) ==
    LET known == SelectSeq(ids, LAMBDA sid : Resolves(sid, vt))
    IN [i \in 1..Len(known) |-> ExpectedDuration(known[i], vt)]

\* C7: for a non-empty list of resolved durations the result is the longest
\* plus half of the sum of the others, rounded with ties to the even
\* integer; 160, 60, 60 give 220, 60, 15 give 68 and 61, 15 give 68.
C7_OverlapRounding ==
    IsDurationCall(resp) =>
        LET D == ResolvedDurations(resp.service_ids, resp.vehicle_type_id)
        IN D # <<>> =>
              /\ RoundsToEven(resp.result, HalvesOf(D))
              /\ (D = <<160, 60, 60>> => resp.result = 220)
              /\ (D = <<60, 15>> => resp.result = 68)
              /\ (D = <<61, 15>> => resp.result = 68)

\* The call on durations 61, 15 (a tie, 68.5) has returned 68.
C7_Witness ==
    /\ IsDurationCall(resp)
    /\ ResolvedDurations(resp.service_ids, resp.vehicle_type_id) = <<61, 15>>
    /\ resp.result = 68

\* The calls on 160, 60, 60 and on 60, 15 (a tie, 67.5) have returned.
C7_WitnessSeed ==
    /\ IsDurationCall(resp)
    /\ ResolvedDurations(resp.service_ids, resp.vehicle_type_id) = <<160, 60, 60>>
    /\ resp.result = 220

C7_WitnessTieUp ==
    /\ IsDurationCall(resp)
    /\ ResolvedDurations(resp.service_ids, resp.vehicle_type_id) = <<60, 15>>
    /\ resp.result = 68

\* C8: the result is 60 when the list is empty and when every id in it has
\* neither an active price row for the vehicle type nor a Service row.
C8_Fallback ==
    (/\ IsDurationCall(resp)
     /\ \A i \in DOMAIN resp.service_ids :
           ~Resolves(resp.service_ids[i], resp.vehicle_type_id))
        => resp.result = 60

\* A call with a non-empty list of ids that do not resolve has returned 60
\* while the id has a price row, inactive or of another vehicle type.
C8_Witness ==
    /\ IsDurationCall(resp)
    /\ resp.service_ids # <<>>
    /\ \A i \in DOMAIN resp.service_ids :
          ~Resolves(resp.service_ids[i], resp.vehicle_type_id)
    /\ \E i \in DOMAIN service_prices :
          service_prices[i].service_id = resp.service_ids[1]
    /\ resp.result = 60

\* The call with the empty list has returned 60.
C8_WitnessEmpty ==
    /\ IsDurationCall(resp)
    /\ resp.service_ids = <<>>
    /\ resp.result = 60

\* C9: for a list of one known service id the result is that service's
\* duration: the active price row's if there is one, else the base duration.
C9_SingleService ==
    (/\ IsDurationCall(resp)
     /\ Len(resp.service_ids) = 1
     /\ resp.service_ids[1] \in DOMAIN services)
        => resp.result = ExpectedDuration(resp.service_ids[1], resp.vehicle_type_id)

\* A call for one service with an active price row of odd duration has
\* returned that duration.
C9_Witness ==
    /\ IsDurationCall(resp)
    /\ Len(resp.service_ids) = 1
    /\ resp.service_ids[1] \in DOMAIN services
    /\ HasActiveRow(resp.service_ids[1], resp.vehicle_type_id)
    /\ resp.result = 61

\* C10: each requested service counts with the duration of its active
\* price row for the vehicle type, else with its base duration; an inactive
\* row is ignored, and for a vehicle type without price rows every service
\* counts with its base duration.
C10_ResolutionPriority ==
    IsDurationCall(resp) =>
        LET D == ExpectedDurations(resp.service_ids, resp.vehicle_type_id)
            B == LET known == SelectSeq(resp.service_ids,
                                        LAMBDA sid : sid \in DOMAIN services)
                 IN [i \in 1..Len(known) |-> services[known[i]].duration_minutes]
            NoActiveRows == \A i \in DOMAIN resp.service_ids :
                               ~HasActiveRow(resp.service_ids[i], resp.vehicle_type_id)
        IN /\ D # <<>> => RoundsToEven(resp.result, HalvesOf(D))
           /\ (NoActiveRows /\ B # <<>>) => RoundsToEven(resp.result, HalvesOf(B))

\* A call has returned for a list with one service whose price row is
\* inactive and one whose price row is active, both of durations other
\* than the base durations.
C10_Witness ==
    /\ IsDurationCall(resp)
    /\ \E i, j \in DOMAIN resp.service_ids :
          /\ resp.service_ids[i] \in DOMAIN services
          /\ resp.service_ids[j] \in DOMAIN services
          /\ HasInactiveRow(resp.service_ids[i], resp.vehicle_type_id)
          /\ HasActiveRow(resp.service_ids[j], resp.vehicle_type_id)

\* A call for an unknown vehicle type has returned while price rows exist.
C10_WitnessUnknownType ==
    /\ IsDurationCall(resp)
    /\ resp.vehicle_type_id \notin DOMAIN vehicle_types
    /\ service_prices # <<>>
    /\ resp.service_ids = <<1, 2, 3>>
    /\ resp.result = 220

----------------------------------------------------------------------------
(* Properties of the price estimator *)

IsPriceCall(r) == r.op = "calculate_real_price"

\* How many times sid is requested in ids.
Occurrences(ids, sid) == Cardinality({i \in DOMAIN ids : ids[i] = sid})

\* The sum, over the active price rows of the vehicle type, of the row's
\* price times the number of requests for the row's service.
ExpectedPrice(ids, vt) ==
    LET rows == {i \in DOMAIN service_prices :
                    /\ service_prices[i].vehicle_type_id = vt
                    /\ service_prices[i].is_active = TRUE}
        sum[S \in SUBSET rows] ==
            IF S = {} THEN 0
            ELSE LET r == CHOOSE r \in S : TRUE
                 IN service_prices[r].price
                      * Occurrences(ids, service_prices[r].service_id)
                    + sum[S \ {r}]
    IN sum[rows]

\* C11: calculate_real_price returns the plain sum, over the requested ids,
\* of the price of the active price row for the service and vehicle type; an
\* id with no row or only an inactive row adds 0 and raises no error, and
\* nothing is discounted for overlap.
C11_PriceSum ==
    IsPriceCall(resp) =>
        /\ resp.result \in Int
        /\ resp.result = ExpectedPrice(resp.service_ids, resp.vehicle_type_id)
        /\ (\A i \in DOMAIN resp.service_ids :
               ~HasActiveRow(resp.service_ids[i], resp.vehicle_type_id))
             => resp.result = 0

\* A call has returned the one active price for a list that holds a service
\* with an active row, one with an inactive row and one with no row.
C11_Witness ==
    /\ IsPriceCall(resp)
    /\ \E i, j, k \in DOMAIN resp.service_ids :
          /\ HasActiveRow(resp.service_ids[i], resp.vehicle_type_id)
          /\ HasInactiveRow(resp.service_ids[j], resp.vehicle_type_id)
          /\ PriceIds(resp.service_ids[k], resp.vehicle_type_id) = {}
    /\ resp.result = 250

\* A call has returned twice the price of a service requested twice.
C11_WitnessRepeated ==
    /\ IsPriceCall(resp)
    /\ resp.service_ids = <<3, 2, 3>>
    /\ resp.result = 250 + 2 * 100

\* The list ids read in the order p.
Permuted(ids, p) == [i \in 1..Len(ids) |-> ids[p[i]]]

\* C12: the total is the same for every permutation of the requested ids,
\* and the total of a list is the sum of the totals of the two lists it is
\* the concatenation of.
C12_OrderIndependentAdditive ==
    IsPriceCall(resp) =>
        LET ids == resp.service_ids
            vt == resp.vehicle_type_id
            n == Len(ids)
        IN /\ \A p \in Permutations(1..n) :
                 calculate_real_price(Permuted(ids, p), vt) = resp.result
           /\ \A k \in 0..n :
                 calculate_real_price(SubSeq(ids, 1, k), vt)
                   + calculate_real_price(SubSeq(ids, k + 1, n), vt)
                 = resp.result

\* A call has returned for three services of which two have active rows of
\* different prices.
C12_Witness ==
    /\ IsPriceCall(resp)
    /\ Len(resp.service_ids) = 3
    /\ resp.service_ids[1] # resp.service_ids[2]
    /\ PriceOf(resp.service_ids[1], resp.vehicle_type_id) = 100
    /\ PriceOf(resp.service_ids[2], resp.vehicle_type_id) = 250
    /\ resp.result = 350

----------------------------------------------------------------------------
(* Scheduling: creating and editing appointments on a catalog with price   *)
(* rows, next to an appointment from before the vehicle_type_id column.    *)

\* An appointment row written before ensure_appointments_schema added the
\* vehicle_type_id column: the column is NULL.
LegacyAppointment ==
    [customer_name |-> Ana,
     plate |-> normalize_plate(Plate1),
     phone |-> Phone1,
     services |-> Motor,
     start_datetime |-> Start1,
     end_datetime |-> Start1 + 60,
     notes |-> EmptyText,
     vehicle_type_id |-> NoId]

InitSched ==
    /\ services = SeedServicesEst
    /\ vehicle_types = SeedVehicleTypes
    /\ service_prices = EmptyTable
    /\ appointments = <<LegacyAppointment>>
    /\ service_sales = EmptyTable
    /\ clients = EmptyTable
    /\ resp = Idle

\* Submitted forms: service ids 1..3 exist, 4 once Cera is added, 9 never;
\* vehicle type 1 exists, 7 does not.
SchedNewRequests ==
    {[start_dt |-> NoStart, selected_ids |-> {1, 2, 3}, vehicle_type_id |-> 1],
     [start_dt |-> Start1, selected_ids |-> {}, vehicle_type_id |-> 1],
     [start_dt |-> Start1, selected_ids |-> {9}, vehicle_type_id |-> 1],
     [start_dt |-> Start1, selected_ids |-> {1}, vehicle_type_id |-> NoId],
     [start_dt |-> Start1, selected_ids |-> {1, 2, 3}, vehicle_type_id |-> 1],
     [start_dt |-> Start1, selected_ids |-> {1, 2, 3}, vehicle_type_id |-> 7],
     [start_dt |-> Start1, selected_ids |-> {3, 9}, vehicle_type_id |-> 1],
     [start_dt |-> Start1, selected_ids |-> {2, 4}, vehicle_type_id |-> 1]}

SchedEditIdSets == {{}, {3}, {2, 4}, {1, 2, 3}}

SchedPriceRows ==
    {[service_id |-> 2, price |-> 250, duration |-> 61],
     [service_id |-> 3, price |-> 100, duration |-> 15]}

ServicesViewSched == services_view(Cera, 15)

ServicePricesNewSched ==
    \E row \in SchedPriceRows :
        service_prices_new(row.service_id, 1, row.price, row.duration)

ServicePricesToggleSched ==
    \E price_id \in 1..Cardinality(SchedPriceRows) :
        service_prices_toggle(price_id)

NewAppointmentSched ==
    /\ NextAppointmentId <= MaxAppt
    /\ \E req \in SchedNewRequests :
          new_appointment(Ana, Plate1, Phone1, req.start_dt, EmptyText,
                          req.selected_ids, req.vehicle_type_id)

EditAppointmentSched ==
    \E appointment_id \in AppointmentIds, selected_ids \in SchedEditIdSets :
        edit_appointment(appointment_id, Ana, Plate1, Phone1, Start1,
                         EmptyText, selected_ids)

NextSched ==
    \/ ServicesViewSched
    \/ ServicePricesNewSched
    \/ ServicePricesToggleSched
    \/ NewAppointmentSched
    \/ EditAppointmentSched
    \/ Return

SpecSched == InitSched /\ [][NextSched]_vars

----------------------------------------------------------------------------
(* Properties of creating and editing appointments *)

IsCreateResponse(r) == r.op = "new_appointment"

IsEditResponse(r) == r.op = "edit_appointment"

\* The messages with which new_appointment refuses a form.
ValidationErrors == {NoDateTime, NoServices, NoVehicleType, InvalidServices}

\* The submitted ids that are Service rows, in ascending order.
ResolvedIds(selected_ids) ==
    Ascending({sid \in selected_ids : sid \in DOMAIN services})

\* The base durations of the services ids.
BaseDurations(ids) == [i \in 1..Len(ids) |-> services[ids[i]].duration_minutes]

\* C13: right after a successful create the appointment ends at its start
\* plus calculate_real_duration_minutes of the resolved ids and the
\* submitted vehicle type on the catalog of that moment: the longest
\* resolved duration plus half of the others; base durations 160, 60, 60
\* and a start at 09:00 give an end at 12:40.
C13_EndAfterCreate ==
    (IsCreateResponse(resp) /\ resp.result = Ok) =>
        LET a == appointments[resp.id]
            ids == ResolvedIds(resp.selected_ids)
            D == ExpectedDurations(ids, resp.vehicle_type_id)
        IN /\ a.start_datetime = resp.start_dt
           /\ a.end_datetime = a.start_datetime
                 + calculate_real_duration_minutes(ids, resp.vehicle_type_id)
           /\ D # <<>>
           /\ RoundsToEven(a.end_datetime - a.start_datetime, HalvesOf(D))
           /\ (D = <<160, 60, 60>> /\ a.start_datetime = 9 * 60)
                => a.end_datetime = 12 * 60 + 40

\* A create for three services of base durations 160, 60, 60 and no active
\* price row, starting at 09:00, has stored an end at 12:40.
C13_Witness ==
    /\ IsCreateResponse(resp)
    /\ resp.result = Ok
    /\ resp.selected_ids = {1, 2, 3}
    /\ \A sid \in 1..3 : ~HasActiveRow(sid, resp.vehicle_type_id)
    /\ appointments[resp.id].start_datetime = 9 * 60
    /\ appointments[resp.id].end_datetime = 12 * 60 + 40

\* A create on a catalog with active price rows of 61 and 15 minutes has
\* stored an end 160 + 38 minutes after the start.
C13_WitnessPriceRows ==
    /\ IsCreateResponse(resp)
    /\ resp.result = Ok
    /\ ResolvedDurations(ResolvedIds(resp.selected_ids), resp.vehicle_type_id)
         = <<160, 61, 15>>
    /\ appointments[resp.id].end_datetime = Start1 + 198

\* C14: a create whose list of service ids is empty or holds no id of a
\* Service row is refused with a validation message and changes nothing:
\* no appointment is stored and no client is created or updated.
C14_NoServicesNoChange ==
    [][(/\ resp = Idle
        /\ IsCreateResponse(resp')
        /\ \A sid \in resp'.selected_ids : sid \notin DOMAIN services)
         => /\ resp'.result \in ValidationErrors
            /\ resp'.id = NoId
            /\ appointments' = appointments
            /\ clients' = clients
            /\ UNCHANGED store]_vars

\* A create with a plate and only an unknown service id has been refused
\* and there is no client of that plate.
C14_Witness ==
    /\ IsCreateResponse(resp)
    /\ resp.selected_ids = {9}
    /\ resp.result = InvalidServices
    /\ normalize_plate(resp.plate) # <<>>
    /\ normalize_plate(resp.plate) \notin DOMAIN clients

\* A create with an empty selection has been refused.
C14_WitnessEmpty ==
    /\ IsCreateResponse(resp)
    /\ resp.selected_ids = {}
    /\ resp.start_dt # NoStart
    /\ resp.result = NoServices

\* C15: a create whose vehicle_type_id is absent or is not the id of a
\* VehicleType row is refused with a validation message and stores no
\* appointment, so the appointment a create has written references an
\* existing vehicle type.
C15_VehicleTypeValidated ==
    IsCreateResponse(resp) =>
        /\ resp.vehicle_type_id \notin DOMAIN vehicle_types
             => /\ resp.result \in ValidationErrors
                /\ resp.id = NoId
        /\ resp.result = Ok
             => appointments[resp.id].vehicle_type_id \in DOMAIN vehicle_types

\* C16: after a successful edit the appointment ends at its start plus the
\* longest resolved duration plus half of the others, rounded as
\* calculate_real_duration_minutes rounds, for an appointment with a vehicle
\* type and, on base durations, for one without.
C16_EditSameModel ==
    (IsEditResponse(resp) /\ resp.result = Ok) =>
        LET a == appointments[resp.id]
            ids == ResolvedIds(resp.selected_ids)
            D == IF a.vehicle_type_id # NoId
                 THEN ExpectedDurations(ids, a.vehicle_type_id)
                 ELSE BaseDurations(ids)
        IN /\ a.start_datetime = resp.start_dt
           /\ D # <<>> =>
                RoundsToEven(a.end_datetime - a.start_datetime, HalvesOf(D))

----------------------------------------------------------------------------
(* Clients: appointments created and edited with blank and non-blank       *)
(* customer names and phones for one plate.                                *)

ClientNames == {EmptyText, <<" ">>, Ana}

ClientPhones == {EmptyText, Phone1}

NewAppointmentClient ==
    /\ NextAppointmentId <= MaxAppt
    /\ \E customer_name \in ClientNames, phone \in ClientPhones :
          new_appointment(customer_name, Plate1, phone, Start1, EmptyText, {1}, 1)

EditAppointmentClient ==
    \E appointment_id \in AppointmentIds, customer_name \in ClientNames, phone \in ClientPhones :
        edit_appointment(appointment_id, customer_name, Plate1, phone, Start1,
                         EmptyText, {1})

NextClient ==
    \/ NewAppointmentClient
    \/ EditAppointmentClient
    \/ DeleteAppointment
    \/ Return

SpecClient == Init /\ [][NextClient]_vars

Blank(text) == Strip(text) = <<>>

\* C17: a create or edit with a plate whose submitted name (phone) is blank
\* leaves the stored non-blank name (phone) of every client as it was.
C17_BlankKeepsClient ==
    [][(/\ resp = Idle
        /\ IsCreateResponse(resp') \/ IsEditResponse(resp')
        /\ resp'.result = Ok
        /\ normalize_plate(resp'.plate) # <<>>)
         => \A p \in DOMAIN clients :
               /\ (Blank(resp'.customer_name) /\ clients[p].full_name # None)
                    => clients'[p].full_name = clients[p].full_name
               /\ (Blank(resp'.phone) /\ clients[p].phone # None)
                    => clients'[p].phone = clients[p].phone]_vars

----------------------------------------------------------------------------
(* Closing on a catalog whose prices are any integers service_prices_new   *)
(* accepts.                                                                *)

SignedPrices == {-50, 100}

ServicePricesNewSigned ==
    \E price \in SignedPrices : service_prices_new(1, 1, price, 60)

NextSigned ==
    \/ ServicePricesNewSigned
    \/ NewAppointmentMotor
    \/ CloseAppointmentAny
    \/ Return

SpecSigned == Init /\ [][NextSigned]_vars

\* C18: every sale has a base amount, a discount amount and a final amount
\* that are each at least 0.
C18_AmountsNonNegative ==
    \A i \in DOMAIN service_sales :
        /\ service_sales[i].base_amount >= 0
        /\ service_sales[i].discount_amount >= 0
        /\ service_sales[i].final_amount >= 0

----------------------------------------------------------------------------
(* Properties of a successful close *)

\* C19: a successful close leaves the closed appointment, every other
\* appointment, every client and the catalog as they were and appends one
\* sale with the appointment's id to the sales; and a close of an existing
\* appointment is refused as already closed exactly when a sale with its id
\* exists.
C19_CloseOnlyAddsSale ==
    [][CloseStep =>
         /\ resp'.result = Ok =>
              /\ appointments' = appointments
              /\ clients' = clients
              /\ catalog' = catalog
              /\ Len(service_sales') = Len(service_sales) + 1
              /\ SubSeq(service_sales', 1, Len(service_sales)) = service_sales
              /\ service_sales'[Len(service_sales')].appointment_id = resp'.id
         /\ resp'.result = AlreadyClosed <=> SalesOf(resp'.id) # {}]_vars

\* A second appointment has just been closed while the first one's sale, a
\* client and a price row exist.
C19_Witness ==
    /\ IsCloseResponse(resp)
    /\ resp.result = Ok
    /\ Cardinality(DOMAIN appointments) = 2
    /\ DOMAIN clients # {}
    /\ service_prices # <<>>
    /\ Len(service_sales) = 2
    /\ service_sales[2].appointment_id = resp.id
    /\ service_sales[1].appointment_id # resp.id

----------------------------------------------------------------------------
(* Concurrent closes: several requests for one appointment in flight at    *)
(* once, each running close_appointment in two steps, the existence check  *)
(* and the insert with its commit.  resp holds the position of each.       *)

\* The number of close requests in flight at once.
MaxClosers == 2

Closers == 1..MaxClosers

IsRace(r) == r.op = "concurrent_close"

\* The discount in the JSON body of closer p.
RaceDiscount(p) == 10 * p

\* The requests arrive.
concurrent_close_begin(appointment_id) ==
    /\ resp = Idle
    /\ resp' = [op |-> "concurrent_close",
                id |-> appointment_id,
                pc |-> [p \in Closers |-> "start"]]
    /\ UNCHANGED store

\* get_or_404 and the existence check of closer p.
close_check(p) ==
    /\ IsRace(resp)
    /\ resp.pc[p] = "start"
    /\ resp' = [resp EXCEPT !.pc[p] =
                  IF resp.id \notin DOMAIN appointments THEN NotFound
                  ELSE IF appointment_already_closed(resp.id) THEN AlreadyClosed
                  ELSE "passed"]
    /\ UNCHANGED store

\* A variant of close_insert under a unique constraint on appointment_id:
\* the insert of a second row for the appointment fails.
close_insert_if_absent(p) ==
    /\ IsRace(resp)
    /\ resp.pc[p] = "passed"
    /\ IF appointment_already_closed(resp.id)
       THEN /\ resp' = [resp EXCEPT !.pc[p] = AlreadyClosed]
            /\ UNCHANGED service_sales
       ELSE /\ service_sales' = Append(service_sales,
                   new_sale(resp.id, Efectivo, Completed, RaceDiscount(p), EmptyText))
            /\ resp' = [resp EXCEPT !.pc[p] = Ok]
    /\ UNCHANGED <<services, vehicle_types, service_prices, appointments, clients>>

\* The rest of close_appointment for closer p, whose body is valid: the
\* sale is built, added and committed.
close_insert(p) ==
    /\ IsRace(resp)
    /\ resp.pc[p] = "passed"
    /\ service_sales' = Append(service_sales,
            new_sale(resp.id, Efectivo, Completed, RaceDiscount(p), EmptyText))
    /\ resp' = [resp EXCEPT !.pc[p] = Ok]
    /\ UNCHANGED <<services, vehicle_types, service_prices, appointments, clients>>

\* Every closer has its response.
concurrent_close_return ==
    /\ IsRace(resp)
    /\ \A p \in Closers : resp.pc[p] \in {Ok, AlreadyClosed, NotFound}
    /\ resp' = Idle
    /\ UNCHANGED store

ReturnSingle == ~IsRace(resp) /\ Return

ConcurrentCloseBegin ==
    \E appointment_id \in AppointmentIds : concurrent_close_begin(appointment_id)

CloseCheck == \E p \in Closers : close_check(p)

CloseInsert == \E p \in Closers : close_insert(p)

NextRace ==
    \/ NewAppointmentMotor
    \/ ServicePricesNewSameDuration
    \/ ReturnSingle
    \/ ConcurrentCloseBegin
    \/ CloseCheck
    \/ CloseInsert
    \/ concurrent_close_return

SpecRace == Init /\ [][NextRace]_vars

\* C20: of the concurrent close requests for one open appointment, each one
\* that evaluates the existence check before any insert is committed passes
\* it, and each one that has passed inserts a sale with the appointment's
\* id whatever has been committed since; so the closers that all check
\* first leave one sale each for the one appointment.
C20_RaceWindow ==
    [][(IsRace(resp) /\ IsRace(resp')) =>
          \A p \in Closers :
             /\ (/\ resp.pc[p] = "start"
                 /\ resp'.pc[p] # "start"
                 /\ resp.id \in DOMAIN appointments
                 /\ SalesOf(resp.id) = {})
                  => resp'.pc[p] = "passed"
             /\ (resp.pc[p] = "passed" /\ resp'.pc[p] # "passed")
                  => /\ resp'.pc[p] = Ok
                     /\ Len(service_sales') = Len(service_sales) + 1
                     /\ service_sales'[Len(service_sales')].appointment_id = resp.id
                     /\ Cardinality(SalesOf(resp.id)') = Cardinality(SalesOf(resp.id)) + 1]_vars

\* Two concurrent closes of one appointment have both succeeded and two
\* sales with its id are stored.
C20_Witness ==
    /\ IsRace(resp)
    /\ \E p, q \in Closers : p # q /\ resp.pc[p] = Ok /\ resp.pc[q] = Ok
    /\ \E i, j \in DOMAIN service_sales :
          /\ i # j
          /\ service_sales[i].appointment_id = resp.id
          /\ service_sales[j].appointment_id = resp.id

----------------------------------------------------------------------------
(* Price rows: service_prices_new and service_prices_toggle on the pairs   *)
(* of two services and two vehicle type ids.                               *)

PricePairServiceIds == {1, 2}

PricePairVehicleTypeIds == {1, 2}

PricePairRows ==
    {[price |-> 100, duration |-> 15], [price |-> 250, duration |-> 61]}

ServicePricesNewPairs ==
    \E service_id \in PricePairServiceIds, vehicle_type_id \in PricePairVehicleTypeIds, row \in PricePairRows :
        service_prices_new(service_id, vehicle_type_id, row.price, row.duration)

ServicePricesTogglePairs ==
    \E price_id \in 1..(Cardinality(PricePairServiceIds) * Cardinality(PricePairVehicleTypeIds)) :
        service_prices_toggle(price_id)

NextPrices ==
    \/ ServicePricesNewPairs
    \/ ServicePricesTogglePairs
    \/ Return

SpecPrices == Init /\ [][NextPrices]_vars

SamePair(r, q) ==
    r.service_id = q.service_id /\ r.vehicle_type_id = q.vehicle_type_id

\* C21: no two ServicePrice rows have the same service id and vehicle type
\* id, so a pair has at most one active row; a service_prices_new for a pair
\* that has a row adds none: that row takes the submitted price and duration
\* and is active, and the other rows stay as they were.
C21_OneRowPerPair ==
    [][/\ \A i, j \in DOMAIN service_prices' :
             SamePair(service_prices'[i], service_prices'[j]) => i = j
       /\ (/\ resp = Idle
           /\ resp'.op = "service_prices_new"
           /\ \E i \in DOMAIN service_prices : SamePair(service_prices[i], resp'))
            => /\ Len(service_prices') = Len(service_prices)
               /\ \A i \in DOMAIN service_prices :
                     IF SamePair(service_prices[i], resp')
                     THEN service_prices'[i] =
                            [service_id |-> resp'.service_id,
                             vehicle_type_id |-> resp'.vehicle_type_id,
                             price |-> resp'.price,
                             duration_minutes |-> resp'.duration,
                             is_active |-> TRUE]
                     ELSE service_prices'[i] = service_prices[i]]_vars

\* A pair that has a row has been submitted again with another price while
\* four rows exist, one of them inactive.
C21_Witness ==
    /\ resp.op = "service_prices_new"
    /\ resp.result = "updated"
    /\ resp.price = 250
    /\ Len(service_prices) = 4
    /\ \E i, j \in DOMAIN service_prices :
          /\ SamePair(service_prices[i], resp)
          /\ service_prices[i].is_active
          /\ service_prices[i].price = 250
          /\ ~service_prices[j].is_active

----------------------------------------------------------------------------
(* Properties of a refused close *)

CloseErrors == {NotFound, AlreadyClosed, InvalidStatus, PaymentRequired}

\* C22: a close request that fails, for an unknown appointment id, a closed
\* appointment, an unrecognized status or a completed sale without payment
\* method, inserts no sale and changes no appointment, client or catalog
\* row; and a request with one of these defects fails.
C22_FailedCloseNoChange ==
    [][(resp = Idle /\ IsCloseResponse(resp')) =>
         /\ resp'.result \in CloseErrors \cup {Ok}
         /\ (\/ resp'.id \notin DOMAIN appointments
             \/ SalesOf(resp'.id) # {}
             \/ ~StatusValid(resp')
             \/ ~PaymentValid(resp')) => resp'.result \in CloseErrors
         /\ resp'.result \in CloseErrors =>
              /\ service_sales' = service_sales
              /\ appointments' = appointments
              /\ clients' = clients
              /\ catalog' = catalog]_vars

\* A completed close without payment method has been refused while a sale,
\* a client and a price row exist.
C22_Witness ==
    /\ IsCloseResponse(resp)
    /\ resp.result = PaymentRequired
    /\ service_sales # <<>>
    /\ DOMAIN clients # {}
    /\ service_prices # <<>>

\* A close of an appointment id that no appointment has was refused.
C22_WitnessNotFound ==
    /\ IsCloseResponse(resp)
    /\ resp.result = NotFound
    /\ resp.id \notin DOMAIN appointments
    /\ service_sales # <<>>

\* A close with an unrecognized status was refused.
C22_WitnessStatus ==
    /\ IsCloseResponse(resp)
    /\ resp.result = InvalidStatus
    /\ DOMAIN appointments # {}

----------------------------------------------------------------------------
(* Service names: services whose names hold a comma or a leading space are *)
(* added and priced, then appointments are taken and closed.  The catalog   *)
(* handlers run only while there is no appointment, so the catalog at the   *)
(* close of an appointment is the catalog at its last create or edit.       *)

\* Names services_view accepts: " Cera" and "Motor,Enjuague".
SpacedCera == <<" ">> \o Cera
MotorCommaEnjuague == Motor \o <<",">> \o Enjuague
NewServiceNames == {SpacedCera, MotorCommaEnjuague}

NamePriceRows ==
    {[service_id |-> 1, price |-> 100], [service_id |-> 3, price |-> 250]}

NameIdSets == {{1}, {3}, {1, 3}}

ServicesViewNames ==
    /\ DOMAIN appointments = {}
    /\ \E name \in NewServiceNames : services_view(name, 15)

ServicePricesNewNames ==
    /\ DOMAIN appointments = {}
    /\ \E row \in NamePriceRows : service_prices_new(row.service_id, 1, row.price, 15)

NewAppointmentNames ==
    /\ NextAppointmentId <= MaxAppt
    /\ \E selected_ids \in NameIdSets :
          new_appointment(Ana, Plate1, Phone1, Start1, EmptyText, selected_ids, 1)

EditAppointmentNames ==
    \E appointment_id \in AppointmentIds :
        edit_appointment(appointment_id, Ana, Plate1, Phone1, Start1, EmptyText, {3})

CloseAppointmentNames ==
    \E appointment_id \in AppointmentIds :
        close_appointment(appointment_id, Efectivo, Completed, 30, EmptyText)

NextNames ==
    \/ ServicesViewNames
    \/ ServicePricesNewNames
    \/ NewAppointmentNames
    \/ EditAppointmentNames
    \/ CloseAppointmentNames
    \/ Return

SpecNames == Init /\ [][NextNames]_vars

\* The services string new_appointment and edit_appointment store for the
\* selection S of Service rows.
StoredNames(S) == Join(ServiceNameList(Ascending(S)), CommaSpace)

\* C23: with the catalog unchanged since the last create or edit of an
\* appointment, the sale of its close has as base amount
\* calculate_real_price over the selected services, for every selection of
\* Service rows that stores the appointment's services string; and the
\* string a create or edit has stored resolves back to the selected rows.
C23_ClosePricesSelected ==
    [][/\ (CloseStep /\ resp'.result = Ok) =>
            LET a == appointments[resp'.id]
                sale == service_sales'[Len(service_sales')]
            IN \A S \in SUBSET DOMAIN services :
                  StoredNames(S) = a.services =>
                      sale.base_amount
                        = calculate_real_price(Ascending(S), a.vehicle_type_id)
       /\ (/\ resp = Idle
           /\ IsCreateResponse(resp') \/ IsEditResponse(resp')
           /\ resp'.result = Ok) =>
            SeqToSet(ServicesNamed(service_names_of(appointments'[resp'.id].services)))
              = resp'.selected_ids \cap DOMAIN services]_vars

----------------------------------------------------------------------------
(* Properties of the store after create and edit *)

\* C24: right after a successful create no sale has the new appointment's
\* id, whatever came before, deletes of closed appointments included.
C24_CreatedOpen ==
    (IsCreateResponse(resp) /\ resp.result = Ok) => SalesOf(resp.id) = {}

\* C25: every stored appointment has a services string that is not empty
\* and names at least one Service row.
C25_ServicesNonEmpty ==
    \A a \in DOMAIN appointments :
        /\ appointments[a].services # EmptyText
        /\ ServicesNamed(service_names_of(appointments[a].services)) # <<>>

=============================================================================
